---- MODULE Spec2Model ----
(***************************************************************************)
(* Model of the PhishGuard training tool: the WAV wrapping of the TTS      *)
(* audio (services/geminiService.ts, playAudio / createWavHeader /         *)
(* writeString), the Express/SQLite backend (the REST handlers over the    *)
(* phisherman.db tables) and the client handlers of App.tsx that produce   *)
(* feedback for a user response.                                           *)
(*                                                                         *)
(* Numbers.  TLC integers are 32-bit signed, while DataView.setUint32      *)
(* reduces a JavaScript number modulo 2^32.  A number that may reach 2^32  *)
(* is therefore kept as a record [hi, lo] with value hi * 65536 + lo and   *)
(* 0 <= lo < 65536 ("wide" number); ToUint32 is then hi % 65536.           *)
(* Byte buffers are functions from 0-based offsets to 0..255, as in the    *)
(* source.  Strings are sequences of UTF-16 code units.                    *)
(***************************************************************************)
EXTENDS Integers, Sequences, FiniteSets, TLC

VARIABLES
    \* ---- audio pipeline (playAudio / createWavHeader)
    wavOp,      \* position of the audio call: "callX" before, "X" after, "idle" when none
    hdrArgs,    \* [dataLength, sampleRate] of the last createWavHeader call (wide numbers)
    header,     \* the Uint8Array the last createWavHeader call returned
    base64,     \* the argument of the last playAudio call
    bytes,      \* playAudio: the decoded payload
    wavBytes,   \* playAudio: header + payload, the buffer behind the Blob
    audio,      \* playAudio's return value: "Audio" or "null"
    tts,        \* the generateDeepfakeAudio call: position, argument, requests, outcome
    \* ---- backend (Express handlers over phisherman.db)
    employees,   \* employees table: id -> security_score
    simulations, \* simulations table: rows in id order (id, type, difficulty)
    campaigns,   \* campaigns table: rows in id order
    results,     \* results table: rows in id order
    now,         \* the database clock (CURRENT_TIMESTAMP, in seconds)
    res,         \* the response to the last request
    sqlLog,      \* the SQL statements the last request's handler ran
    posted,      \* history: the bodies of the POST /api/results requests that succeeded since Init
    \* ---- client (App.tsx; role 'employee', the views with handlers)
    currentView, emailSim, phoneSim, deepfakeAudio, deepfakeSolution,
    loading, selectedFlags, feedback, stats, reports,
    tasks,       \* the handler invocations suspended at an await
    analyses,    \* history: the analyzeSimulationResponse requests issued
    submissions, \* history: the number of user responses submitted so far
    stored,      \* history: the submissions whose POST /api/results stored a row
    phoneLog     \* history: the requests and the outcome of the last generatePhoneSimulation call

wavVars == <<wavOp, hdrArgs, header, base64, bytes, wavBytes, audio, tts>>

dbVars == <<employees, simulations, campaigns, results, now, res, sqlLog, posted>>

appVars == <<currentView, emailSim, phoneSim, deepfakeAudio, deepfakeSolution,
             loading, selectedFlags, feedback, stats, reports, tasks, analyses, submissions,
             stored, phoneLog>>

vars == <<wavVars, dbVars, appVars>>

(***************************************************************************)
(* Wide numbers                                                            *)
(***************************************************************************)
W(h, l) == [hi |-> h, lo |-> l]

Wide(n) == W(n \div 65536, n % 65536)

WAdd(a, b) == W(a.hi + b.hi + ((a.lo + b.lo) \div 65536), (a.lo + b.lo) % 65536)

WMul(a, k) == W(a.hi * k + ((a.lo * k) \div 65536), (a.lo * k) % 65536)

\* ToUint32 of the ECMAScript specification: the number modulo 2^32.
ToUint32(a) == W(a.hi % 65536, a.lo)

FitsUint32(a) == a.hi < 65536

(***************************************************************************)
(* DataView over an ArrayBuffer                                            *)
(***************************************************************************)
ArrayBufferExtraByte(n) == [i \in 0..n |-> 0]

\* new ArrayBuffer(n): n zero bytes.
ArrayBuffer(n) == [i \in 0..(n - 1) |-> 0]

\* view.setUint8(offset, value): the value modulo 256.
setUint8(view, offset, value) == [view EXCEPT ![offset] = value % 256]

setUint16BigEndian(view, offset, value) ==
    [view EXCEPT ![offset] = (value \div 256) % 256,
                 ![offset + 1] = value % 256]

\* view.setUint16(offset, value, true): little-endian, value modulo 2^16.
setUint16(view, offset, value) ==
    [view EXCEPT ![offset] = value % 256,
                 ![offset + 1] = (value \div 256) % 256]

setUint32BigEndian(view, offset, value) ==
    LET u == ToUint32(value) IN
    [view EXCEPT ![offset] = u.hi \div 256,
                 ![offset + 1] = u.hi % 256,
                 ![offset + 2] = u.lo \div 256,
                 ![offset + 3] = u.lo % 256]

\* view.setUint32(offset, value, true): little-endian, value modulo 2^32.
setUint32(view, offset, value) ==
    LET u == ToUint32(value) IN
    [view EXCEPT ![offset] = u.lo % 256,
                 ![offset + 1] = u.lo \div 256,
                 ![offset + 2] = u.hi % 256,
                 ![offset + 3] = u.hi \div 256]

RECURSIVE writeStringFrom(_, _, _, _)
\* The loop of writeString from index i (0-based) on.
writeStringFrom(view, offset, string, i) ==
    IF i >= Len(string) THEN view
    ELSE writeStringFrom(setUint8(view, offset + i, string[i + 1]), offset, string, i + 1)

RECURSIVE writeStringNoOffsetFrom(_, _, _, _)
writeStringNoOffsetFrom(view, offset, string, i) ==
    IF i >= Len(string) THEN view
    ELSE writeStringNoOffsetFrom(setUint8(view, i, string[i + 1]), offset, string, i + 1)

writeStringNoOffset(view, offset, string) == writeStringNoOffsetFrom(view, offset, string, 0)

writeString(view, offset, string) == writeStringFrom(view, offset, string, 0)

\* The string literals of createWavHeader, as UTF-16 code units.
StrRIFF == <<82, 73, 70, 70>>
StrWAVE == <<87, 65, 86, 69>>
StrFmt == <<102, 109, 116, 32>>
StrData == <<100, 97, 116, 97>>

RiffLengthNoHeader(dataLength) == dataLength

\* 36 + dataLength
RiffLength(dataLength) == WAdd(Wide(36), dataLength)

ByteRateStereo(sampleRate) == WMul(sampleRate, 4)

\* sampleRate * 2
ByteRate(sampleRate) == WMul(sampleRate, 2)

createWavHeader(dataLength, sampleRate) ==
    LET v0 == ArrayBuffer(44)
        v1 == writeString(v0, 0, StrRIFF)
        v2 == setUint32(v1, 4, RiffLength(dataLength))
        v3 == writeString(v2, 8, StrWAVE)
        v4 == writeString(v3, 12, StrFmt)
        v5 == setUint32(v4, 16, Wide(16))
        v6 == setUint16(v5, 20, 1)
        v7 == setUint16(v6, 22, 1)
        v8 == setUint32(v7, 24, sampleRate)
        v9 == setUint32(v8, 28, ByteRate(sampleRate))
        v10 == setUint16(v9, 32, 2)
        v11 == setUint16(v10, 34, 16)
        v12 == writeString(v11, 36, StrData)
        v13 == setUint32(v12, 40, dataLength)
    IN v13

(***************************************************************************)
(* window.atob: the forgiving-base64 decode of the HTML standard           *)
(***************************************************************************)
AsciiWhitespace == {9, 10, 12, 13, 32}

\* The value of a base64 alphabet character, -1 for any other code unit.
B64Value(c) ==
    IF c >= 65 /\ c <= 90 THEN c - 65
    ELSE IF c >= 97 /\ c <= 122 THEN c - 97 + 26
    ELSE IF c >= 48 /\ c <= 57 THEN c - 48 + 52
    ELSE IF c = 43 THEN 62
    ELSE IF c = 47 THEN 63
    ELSE -1

StripPadding(s) ==
    IF Len(s) % 4 = 0 /\ Len(s) > 0 /\ s[Len(s)] = 61
    THEN IF s[Len(s) - 1] = 61 THEN SubSeq(s, 1, Len(s) - 2)
         ELSE SubSeq(s, 1, Len(s) - 1)
    ELSE s

RECURSIVE DecodeGroups(_)
\* s: a sequence of 6-bit values whose length is not 1 modulo 4.
DecodeGroups(s) ==
    IF Len(s) = 0 THEN <<>>
    ELSE IF Len(s) >= 4
    THEN LET v == s[1] * 262144 + s[2] * 4096 + s[3] * 64 + s[4] IN
         <<v \div 65536, (v \div 256) % 256, v % 256>> \o DecodeGroups(SubSeq(s, 5, Len(s)))
    ELSE IF Len(s) = 3
    THEN LET v == (s[1] * 4096 + s[2] * 64 + s[3]) \div 4 IN
         <<v \div 256, v % 256>>
    ELSE <<(s[1] * 64 + s[2]) \div 16>>

\* atob(s): [ok |-> FALSE] models the InvalidCharacterError.
atob(s) ==
    LET t == StripPadding(SelectSeq(s, LAMBDA c : c \notin AsciiWhitespace)) IN
    IF Len(t) % 4 = 1 \/ \E i \in 1..Len(t) : B64Value(t[i]) < 0
    THEN [ok |-> FALSE, str |-> <<>>]
    ELSE [ok |-> TRUE, str |-> DecodeGroups([i \in 1..Len(t) |-> B64Value(t[i])])]

\* new Uint8Array(len) filled from binaryString.charCodeAt(i).
BytesOf(binaryString) ==
    [i \in 0..(Len(binaryString) - 1) |-> binaryString[i + 1] % 256]

BufLen(buf) == Cardinality(DOMAIN buf)

PayloadOverHeader(wavHeader, payload) ==
    [i \in 0..(BufLen(wavHeader) + BufLen(payload) - 1) |->
        IF i < BufLen(payload) THEN payload[i] ELSE wavHeader[i - BufLen(payload)]]

\* wavBytes = new Uint8Array(wavHeader.length + len); set(wavHeader, 0); set(bytes, wavHeader.length)
WavBytesOf(wavHeader, payload) ==
    [i \in 0..(BufLen(wavHeader) + BufLen(payload) - 1) |->
        IF i < BufLen(wavHeader) THEN wavHeader[i] ELSE payload[i - BufLen(wavHeader)]]

(***************************************************************************)
(* Bounds and input sets of the audio pipeline                             *)
(***************************************************************************)
MaxB64Len == 4

\* 'A', 'V', '/', '=', '!' (not in the alphabet), ' ' (whitespace)
B64Chars == {65, 86, 47, 61, 33, 32}

RECURSIVE SeqsUpTo(_, _)
SeqsUpTo(S, n) ==
    IF n = 0 THEN {<<>>}
    ELSE LET shorter == SeqsUpTo(S, n - 1) IN
         shorter \cup {Append(s, c) : s \in {t \in shorter : Len(t) = n - 1}, c \in S}

\* dataLength arguments: 0, 1, 255, 256, 65535, 65536, 2^31, 2^32-37, 2^32-36, 2^32-1, 2^32
DataLengths ==
    {W(0, 0), W(0, 1), W(0, 255), W(0, 256), W(0, 65535), W(1, 0), W(32768, 0),
     W(65535, 65499), W(65535, 65500), W(65535, 65535), W(65536, 0)}

\* sampleRate arguments: 0, 1, 8000, 24000, 44100, 65536, 2^31-1, 2^31, 2^32-1
SampleRates ==
    {W(0, 0), W(0, 1), W(0, 8000), W(0, 24000), W(0, 44100), W(1, 0),
     W(32767, 65535), W(32768, 0), W(65535, 65535)}

(***************************************************************************)
(* Actions of the audio pipeline                                           *)
(***************************************************************************)
\* The audio pipeline before any call.
NoHeaderArgs == [dataLength |-> W(0, 0), sampleRate |-> W(0, 0)]

\* A call of createWavHeader on its own.
CallCreateWavHeader ==
    /\ wavOp = "callCreateWavHeader"
    /\ wavOp' = "createWavHeader"
    /\ header' = createWavHeader(hdrArgs.dataLength, hdrArgs.sampleRate)
    /\ UNCHANGED <<hdrArgs, base64, bytes, wavBytes, audio, tts>>

\* playAudio(base64), the decoding succeeds: the buffer is built and played.
PlayAudioOk ==
    LET dec == atob(base64)
        len == Len(dec.str)
        wavHeader == createWavHeader(Wide(len), Wide(24000))
    IN /\ wavOp = "callPlayAudio"
       /\ dec.ok
       /\ wavOp' = "playAudio"
       /\ bytes' = BytesOf(dec.str)
       /\ hdrArgs' = [dataLength |-> Wide(len), sampleRate |-> Wide(24000)]
       /\ header' = wavHeader
       /\ wavBytes' = WavBytesOf(wavHeader, BytesOf(dec.str))
       /\ audio' = "Audio"
       /\ UNCHANGED <<base64, tts>>

\* playAudio(base64), atob throws: the catch block returns null.
PlayAudioThrows ==
    /\ wavOp = "callPlayAudio"
    /\ ~atob(base64).ok
    /\ wavOp' = "playAudioFailed"
    /\ audio' = "null"
    /\ UNCHANGED <<hdrArgs, header, base64, bytes, wavBytes, tts>>

NextWav ==
    \/ CallCreateWavHeader /\ UNCHANGED <<dbVars, appVars>>
    \/ PlayAudioOk /\ UNCHANGED <<dbVars, appVars>>
    \/ PlayAudioThrows /\ UNCHANGED <<dbVars, appVars>>

(***************************************************************************)
(* generateDeepfakeAudio                                                   *)
(***************************************************************************)
\* A JavaScript value that is a string or undefined.
Undefined == [present |-> FALSE, str |-> <<>>]

Str(s) == [present |-> TRUE, str |-> s]

\* The code units String.prototype.trim strips (WhiteSpace and LineTerminator).
JsWhitespace ==
    {9, 10, 11, 12, 13, 32, 160, 5760, 8232, 8233, 8239, 8287, 12288, 65279} \cup (8192..8202)

RECURSIVE TrimStart(_)
TrimStart(s) ==
    IF s # <<>> /\ Head(s) \in JsWhitespace THEN TrimStart(Tail(s)) ELSE s

RECURSIVE TrimEnd(_)
TrimEnd(s) ==
    IF s # <<>> /\ s[Len(s)] \in JsWhitespace THEN TrimEnd(SubSeq(s, 1, Len(s) - 1)) ELSE s

\* text.trim()
trim(s) == TrimEnd(TrimStart(s))

\* !text || text.trim().length === 0
TextIsEmpty(text) == ~text.present \/ text.str = <<>> \/ Len(trim(text.str)) = 0

HasAudioDefined(data) == data.present

\* !base64Audio is false: the data is a string and not the empty one.
HasAudio(data) == data.present /\ data.str # <<>>

\* The texts generateDeepfakeAudio is called with: undefined (a script the
\* model's JSON lacks) and the strings over a space, a line feed, a no-break
\* space and a letter.
MaxTextLen == 3

TextChars == {32, 10, 160, 97}

Texts == {Undefined} \cup {Str(s) : s \in SeqsUpTo(TextChars, MaxTextLen)}

\* inlineData.data of a TTS response: missing, empty, or base64 ("AA==").
TtsData == {Undefined, Str(<<>>), Str(<<65, 65, 61, 61>>)}

NoTtsCall == [pc |-> "idle", apiKey |-> TRUE, text |-> Undefined, requests |-> 0,
              response |-> "none", data |-> Undefined, value |-> Undefined]

\* generateDeepfakeAudio(text) up to its await: getAI() throws without a key,
\* an empty text throws, else the TTS request is issued.
GenerateDeepfakeAudio ==
    /\ tts.pc = "called"
    /\ IF ~tts.apiKey \/ TextIsEmpty(tts.text)
       THEN tts' = [tts EXCEPT !.pc = "rejected"]
       ELSE tts' = [tts EXCEPT !.pc = "awaiting", !.requests = tts.requests + 1]
    /\ UNCHANGED <<wavOp, hdrArgs, header, base64, bytes, wavBytes, audio>>

\* The TTS request is answered: without audio data the function throws, else
\* it returns the data.
TtsAnswered(data) ==
    /\ tts.pc = "awaiting"
    /\ IF ~HasAudio(data)
       THEN tts' = [tts EXCEPT !.pc = "rejected", !.response = "answered", !.data = data]
       ELSE tts' = [tts EXCEPT !.pc = "resolved", !.response = "answered", !.data = data,
                               !.value = data]
    /\ UNCHANGED <<wavOp, hdrArgs, header, base64, bytes, wavBytes, audio>>

\* The TTS request fails: the catch block logs and rethrows.
TtsFails ==
    /\ tts.pc = "awaiting"
    /\ tts' = [tts EXCEPT !.pc = "rejected", !.response = "failed"]
    /\ UNCHANGED <<wavOp, hdrArgs, header, base64, bytes, wavBytes, audio>>

NextTts ==
    \/ GenerateDeepfakeAudio /\ UNCHANGED <<dbVars, appVars>>
    \/ (\E data \in TtsData : TtsAnswered(data)) /\ UNCHANGED <<dbVars, appVars>>
    \/ TtsFails /\ UNCHANGED <<dbVars, appVars>>

(***************************************************************************)
(* The backend: tables, seed and request values                            *)
(***************************************************************************)
\* A field of a JSON request body: absent, or present with a number
\* (true and false are 1 and 0: the handlers only test truthiness).
Absent == [present |-> FALSE, val |-> 0]

Val(n) == [present |-> TRUE, val |-> n]

\* JavaScript truthiness of a body field (undefined, null, 0, false are falsy).
Truthy(f) == f.present /\ f.val # 0

\* a || b
OrElse(f, dflt) == IF Truthy(f) THEN f.val ELSE dflt

\* SQL NULL in an integer column (the handlers never store 0 in such a column).
NULL == 0

\* The departments seed() inserts: ids 1..5 (risk_score is not modelled).
Departments == <<"Engineering", "Finance", "Marketing", "HR", "Sales">>

\* The employees seed() inserts, by id: dept_id through the name sub-select.
EmployeeDept == <<1, 2, 3>>

\* better-sqlite3 opens a database with foreign-key enforcement on.
ForeignKeysOn == TRUE

Ids(table) == {table[i].id : i \in 1..Len(table)}

\* lastInsertRowid of an AUTOINCREMENT table no row is ever deleted from.
NextId(table) == Len(table) + 1

NeedsSimulationWhenAbsent(f) == ~f.present

\* if (!simId)
NeedsSimulation(f) == ~Truthy(f)

\* is_correct bound as sent: an absent field would be stored as NULL (-1
\* here), which is neither 1 nor 0.
IsCorrectAsSent(f) == IF f.present THEN f.val ELSE -1

\* is_correct ? 1 : 0
IsCorrectStored(f) == IF Truthy(f) THEN 1 ELSE 0

ScoreAfterWrongUnclamped(score) == score - 5

\* MAX(0, security_score - 5)
ScoreAfterWrong(score) == IF score - 5 > 0 THEN score - 5 ELSE 0

ScoreAfterRightUnclamped(score) == score + 2

\* MIN(100, security_score + 2)
ScoreAfterRight(score) == IF score + 2 < 100 THEN score + 2 ELSE 100

\* The employees table after seed(): three rows, security_score DEFAULT 100.
SeededEmployees == [id \in 1..3 |-> 100]

\* No request answered yet.
NoResponse == [route |-> "none", status |-> 0, body |-> <<>>]

(***************************************************************************)
(* Bounds and request sets of the backend                                  *)
(***************************************************************************)
MaxResults == 2
MaxSims == 3
MaxCampaigns == 1
MaxTime == 1

ResultBody(e, s, c, ok, rt) ==
    [employee_id |-> e, simulation_id |-> s, campaign_id |-> c,
     is_correct |-> ok, response_time |-> rt, feedback |-> Absent]

\* The bodies POST /api/results is exercised with: every field absent; the
\* employee given as 0, 1, 2 (another employee) and 9 (no such employee);
\* simulation_id 0, 1 and 3 (the client's); a campaign_id.
ResultBodies ==
    {ResultBody(Absent, Absent, Absent, Absent, Absent),
     ResultBody(Val(0), Absent, Absent, Val(1), Absent),
     ResultBody(Val(1), Val(0), Absent, Val(0), Val(45000)),
     ResultBody(Val(2), Absent, Absent, Val(1), Val(15000)),
     ResultBody(Val(2), Absent, Absent, Val(0), Val(15000)),
     ResultBody(Val(9), Absent, Absent, Val(1), Absent),
     ResultBody(Absent, Val(1), Absent, Val(1), Val(45000)),
     ResultBody(Absent, Val(3), Absent, Val(0), Val(15000)),
     ResultBody(Val(1), Absent, Val(1), Val(1), Absent)}

\* The bodies POST /api/results is exercised with beside the admin handlers.
BackendBodies ==
    {ResultBody(Absent, Absent, Absent, Absent, Absent),
     ResultBody(Absent, Val(3), Absent, Val(1), Val(15000)),
     ResultBody(Val(2), Absent, Val(1), Val(1), Val(45000))}

\* The bodies POST /api/admin/campaigns is exercised with (every field present).
CampaignBodies ==
    {[name |-> "Q3 drill", target_dept_id |-> d, sim_type |-> "email"] : d \in {1, 9}}

\* The database file outlives the server: the states a run may start from
\* are those earlier requests left.  HistoryResults(k) is the results table
\* after k requests, one a second, the last at time 0: POST /api/results
\* with {is_correct: false}, which inserts simulation 1, and k - 1 times
\* with {simulation_id: 1, is_correct: false}.
MaxHistory == 21

HistoryLengths == {0, MaxHistory - 2, MaxHistory - 1, MaxHistory}

HistoryResults(k) ==
    [i \in 1..k |->
        [id |-> i, employee_id |-> 1, simulation_id |-> 1, campaign_id |-> NULL,
         is_correct |-> 0, response_time |-> 0, feedback |-> "", created_at |-> i - k]]

HistorySimulations(k) ==
    IF k = 0 THEN <<>> ELSE <<[id |-> 1, type |-> "unknown", difficulty |-> 1]>>

RECURSIVE ScoreAfterWrongs(_, _)
ScoreAfterWrongs(score, k) ==
    IF k = 0 THEN score ELSE ScoreAfterWrongs(ScoreAfterWrong(score), k - 1)

HistoryEmployees(k) ==
    [id \in 1..3 |-> IF id = 1 THEN ScoreAfterWrongs(100, k) ELSE 100]

\* The bodies POST /api/results is exercised with on such a database: a wrong
\* and a right answer of employee 1, a wrong answer of employee 2, the falsy
\* employee_id 0, and simulation ids that may not exist.
HistoryBodies ==
    {ResultBody(Absent, Absent, Absent, Absent, Absent),
     ResultBody(Absent, Val(1), Absent, Val(1), Val(45000)),
     ResultBody(Val(2), Absent, Absent, Val(0), Val(15000)),
     ResultBody(Val(0), Absent, Absent, Val(1), Absent),
     ResultBody(Absent, Val(3), Absent, Val(0), Val(15000))}

(***************************************************************************)
(* The handlers                                                            *)
(***************************************************************************)
Respond(route, status, body) == [route |-> route, status |-> status, body |-> body]

\* Express answers 500 when a handler throws.
Fail(route) == Respond(route, 500, <<>>)

RECURSIVE SumSeq(_)
SumSeq(ns) == IF ns = <<>> THEN 0 ELSE Head(ns) + SumSeq(Tail(ns))

\* SUM(...) of SQL over the values ns: NULL over no rows.
SqlSum(ns) ==
    IF ns = <<>> THEN [null |-> TRUE, val |-> 0]
    ELSE [null |-> FALSE, val |-> SumSeq(ns)]

\* AVG(...) of SQL over the values ns: NULL over no rows, else the quotient
\* sum / n, kept exact as the pair.
SqlAvg(ns) ==
    IF ns = <<>> THEN [null |-> TRUE, sum |-> 0, n |-> 0]
    ELSE [null |-> FALSE, sum |-> SumSeq(ns), n |-> Len(ns)]

RECURSIVE MaxOf(_)
MaxOf(ns) ==
    IF Len(ns) = 1 THEN ns[1]
    ELSE LET m == MaxOf(Tail(ns)) IN IF Head(ns) > m THEN Head(ns) ELSE m

RECURSIVE MinOf(_)
MinOf(ns) ==
    IF Len(ns) = 1 THEN ns[1]
    ELSE LET m == MinOf(Tail(ns)) IN IF Head(ns) < m THEN Head(ns) ELSE m

\* Every arrangement of the set of indices.
RECURSIVE Perms(_)
Perms(set) ==
    IF set = {} THEN {<<>>}
    ELSE UNION {{<<i>> \o p : p \in Perms(set \ {i})} : i \in set}

\* The arrangements of the indices whose key lies in lo..k, keys
\* non-increasing: the rows of key k in any order, then those of lower keys.
RECURSIVE IndexOrders(_, _, _)
IndexOrders(keys, k, lo) ==
    IF k < lo THEN {<<>>}
    ELSE {a \o b : a \in Perms({j \in DOMAIN keys : keys[j] = k}),
                   b \in IndexOrders(keys, k - 1, lo)}

\* The orders ORDER BY key DESC may return rows in, keys[i] being the key of
\* rows[i]: every arrangement with non-increasing keys (SQL leaves the order
\* of equal keys open).
OrdersDesc(rows, keys) ==
    IF rows = <<>> THEN {<<>>}
    ELSE {[i \in 1..Len(rows) |-> rows[p[i]]] : p \in IndexOrders(keys, MaxOf(keys), MinOf(keys))}

NoLimit(rows, n) == rows

\* LIMIT n
Limit(rows, n) == IF Len(rows) <= n THEN rows ELSE SubSeq(rows, 1, n)

\* app.get("/api/health")
GetHealth ==
    /\ res' = Respond("GET /api/health", 200, [status |-> "ok"])
    /\ sqlLog' = <<>>
    /\ UNCHANGED <<employees, simulations, campaigns, results, now, posted>>

\* app.get("/api/admin/overview")
GetAdminOverview ==
    /\ res' = Respond("GET /api/admin/overview", 200,
                 [total_sims |-> Len(results),
                  total_reports |-> SqlSum([i \in 1..Len(results) |-> IF results[i].is_correct = 1 THEN 1 ELSE 0]),
                  total_compromises |-> SqlSum([i \in 1..Len(results) |-> IF results[i].is_correct = 0 THEN 1 ELSE 0])])
    /\ sqlLog' = <<"SELECT overview FROM results">>
    /\ UNCHANGED <<employees, simulations, campaigns, results, now, posted>>

\* app.get("/api/admin/departments")
GetAdminDepartments ==
    /\ res' = Respond("GET /api/admin/departments", 200,
                 [d \in 1..Len(Departments) |->
                    LET emps == SelectSeq(<<1, 2, 3>>, LAMBDA e : EmployeeDept[e] = d) IN
                    [id |-> d, name |-> Departments[d],
                     employee_count |-> Len(emps),
                     avg_score |-> SqlAvg([i \in 1..Len(emps) |-> employees[emps[i]]])]])
    /\ sqlLog' = <<"SELECT FROM departments">>
    /\ UNCHANGED <<employees, simulations, campaigns, results, now, posted>>

GetAdminCampaignsQueryPerRow ==
    \E ordered \in OrdersDesc(campaigns, [i \in 1..Len(campaigns) |-> campaigns[i].launched_at]) :
        /\ res' = Respond("GET /api/admin/campaigns", 200,
                     [i \in 1..Len(ordered) |->
                        [id |-> ordered[i].id,
                         dept_name |-> Departments[ordered[i].target_dept_id],
                         response_count |->
                            Len(SelectSeq(results, LAMBDA r : r.campaign_id = ordered[i].id))]])
        /\ sqlLog' = <<"SELECT FROM campaigns">>
                        \o [i \in 1..Len(ordered) |-> "SELECT COUNT FROM results"]
        /\ UNCHANGED <<employees, simulations, campaigns, results, now, posted>>

\* app.get("/api/admin/campaigns"): the campaigns whose department exists
\* (inner join), newest first, each with the number of results that name it.
GetAdminCampaigns ==
    \E ordered \in OrdersDesc(campaigns, [i \in 1..Len(campaigns) |-> campaigns[i].launched_at]) :
        /\ res' = Respond("GET /api/admin/campaigns", 200,
                     [i \in 1..Len(ordered) |->
                        [id |-> ordered[i].id,
                         dept_name |-> Departments[ordered[i].target_dept_id],
                         response_count |->
                            Len(SelectSeq(results, LAMBDA r : r.campaign_id = ordered[i].id))]])
        /\ sqlLog' = <<"SELECT FROM campaigns">>
        /\ UNCHANGED <<employees, simulations, campaigns, results, now, posted>>

\* app.post("/api/admin/campaigns")
PostAdminCampaigns(body) ==
    LET fkOk == ~ForeignKeysOn \/ body.target_dept_id \in 1..Len(Departments) IN
    /\ Len(campaigns) < MaxCampaigns
    /\ sqlLog' = <<"INSERT INTO campaigns">>
    /\ IF fkOk
       THEN /\ campaigns' = Append(campaigns,
                   [id |-> NextId(campaigns), name |-> body.name, status |-> "active",
                    target_dept_id |-> body.target_dept_id, sim_type |-> body.sim_type,
                    launched_at |-> now])
            /\ res' = Respond("POST /api/admin/campaigns", 200, [id |-> NextId(campaigns)])
       ELSE /\ campaigns' = campaigns
            /\ res' = Fail("POST /api/admin/campaigns")
    /\ UNCHANGED <<employees, simulations, results, now, posted>>

ForAnyEmployee(r) == TRUE

\* WHERE employee_id = 1
ForEmployeeOne(r) == r.employee_id = 1

\* app.get("/api/stats"): the aggregate row (never undefined) is the response.
GetStats ==
    LET mine == SelectSeq(results, ForEmployeeOne) IN
    /\ res' = Respond("GET /api/stats", 200,
                 [total_simulations |-> Len(mine),
                  correct_count |-> SqlSum([i \in 1..Len(mine) |-> IF mine[i].is_correct = 1 THEN 1 ELSE 0]),
                  avg_response_time |-> SqlAvg([i \in 1..Len(mine) |-> mine[i].response_time])])
    /\ sqlLog' = <<"SELECT stats FROM results">>
    /\ UNCHANGED <<employees, simulations, campaigns, results, now, posted>>

\* The simulations row a result row joins to (LEFT JOIN): its type, or NULL.
SimTypeOf(simId) ==
    IF \E i \in 1..Len(simulations) : simulations[i].id = simId
    THEN simulations[CHOOSE i \in 1..Len(simulations) : simulations[i].id = simId].type
    ELSE "NULL"

\* app.get("/api/reports")
GetReports ==
    \E ordered \in OrdersDesc(SelectSeq(results, ForEmployeeOne),
                              [i \in 1..Len(SelectSeq(results, ForEmployeeOne)) |->
                                  SelectSeq(results, ForEmployeeOne)[i].created_at]) :
        /\ res' = Respond("GET /api/reports", 200,
                     Limit([i \in 1..Len(ordered) |->
                              [id |-> ordered[i].id,
                               is_correct |-> ordered[i].is_correct,
                               response_time |-> ordered[i].response_time,
                               feedback |-> ordered[i].feedback,
                               created_at |-> ordered[i].created_at,
                               sim_type |-> SimTypeOf(ordered[i].simulation_id)]], 20))
        /\ sqlLog' = <<"SELECT FROM results JOIN simulations">>
        /\ UNCHANGED <<employees, simulations, campaigns, results, now, posted>>

\* app.post("/api/results"): up to three statements, none in a transaction:
\* the simulations insert (simulation_id falsy), the results insert (which
\* throws on a foreign-key violation) and the score update.
PostResults(body) ==
    LET needSim == NeedsSimulation(body.simulation_id)
        sims1 == IF needSim
                 THEN Append(simulations, [id |-> NextId(simulations), type |-> "unknown",
                                           difficulty |-> 1])
                 ELSE simulations
        simId == IF needSim THEN NextId(simulations) ELSE body.simulation_id.val
        emp == OrElse(body.employee_id, 1)
        camp == OrElse(body.campaign_id, NULL)
        fkOk == \/ ~ForeignKeysOn
                \/ /\ emp \in DOMAIN employees
                   /\ simId \in Ids(sims1)
                   /\ camp = NULL \/ camp \in Ids(campaigns)
        row == [id |-> NextId(results), employee_id |-> emp, simulation_id |-> simId,
                campaign_id |-> camp,
                is_correct |-> IsCorrectStored(body.is_correct),
                response_time |-> OrElse(body.response_time, 0),
                feedback |-> IF Truthy(body.feedback) THEN "text" ELSE "",
                created_at |-> now]
        simStmt == IF needSim THEN <<"INSERT INTO simulations">> ELSE <<>>
    IN /\ Len(posted) < MaxResults
       /\ needSim => Len(simulations) < MaxSims
       /\ simulations' = sims1
       /\ IF fkOk
          THEN /\ results' = Append(results, row)
               /\ employees' =
                    [id \in DOMAIN employees |->
                        IF id # emp THEN employees[id]
                        ELSE IF ~Truthy(body.is_correct) THEN ScoreAfterWrong(employees[id])
                        ELSE ScoreAfterRight(employees[id])]
               /\ sqlLog' = simStmt \o <<"INSERT INTO results", "UPDATE employees">>
               /\ res' = Respond("POST /api/results", 200, [id |-> row.id])
               /\ posted' = Append(posted, body)
          ELSE /\ sqlLog' = simStmt \o <<"INSERT INTO results">>
               /\ res' = Fail("POST /api/results")
               /\ UNCHANGED <<results, employees, posted>>
       /\ UNCHANGED <<campaigns, now>>

\* A second passes on the database clock.
Tick ==
    /\ now < MaxTime
    /\ now' = now + 1
    /\ UNCHANGED <<employees, simulations, campaigns, results, res, sqlLog, posted>>

\* The results flow: posting results, the clock, and the handlers that read
\* the results table.
NextResults ==
    \/ (\E body \in ResultBodies : PostResults(body)) /\ UNCHANGED <<wavVars, appVars>>
    \/ GetStats /\ UNCHANGED <<wavVars, appVars>>
    \/ GetAdminOverview /\ UNCHANGED <<wavVars, appVars>>
    \/ GetReports /\ UNCHANGED <<wavVars, appVars>>
    \/ Tick /\ UNCHANGED <<wavVars, appVars>>

\* Results posted on a database with a history, and the reports read back.
NextHistory ==
    \/ (\E body \in HistoryBodies : PostResults(body)) /\ UNCHANGED <<wavVars, appVars>>
    \/ GetReports /\ UNCHANGED <<wavVars, appVars>>
    \/ Tick /\ UNCHANGED <<wavVars, appVars>>

\* Every handler of the backend.
NextBackend ==
    \/ (\E body \in BackendBodies : PostResults(body)) /\ UNCHANGED <<wavVars, appVars>>
    \/ GetHealth /\ UNCHANGED <<wavVars, appVars>>
    \/ GetAdminOverview /\ UNCHANGED <<wavVars, appVars>>
    \/ GetAdminDepartments /\ UNCHANGED <<wavVars, appVars>>
    \/ GetAdminCampaigns /\ UNCHANGED <<wavVars, appVars>>
    \/ (\E body \in CampaignBodies : PostAdminCampaigns(body)) /\ UNCHANGED <<wavVars, appVars>>
    \/ GetStats /\ UNCHANGED <<wavVars, appVars>>
    \/ GetReports /\ UNCHANGED <<wavVars, appVars>>

(***************************************************************************)
(* The client: state of App (role 'employee') and its handlers             *)
(***************************************************************************)
\* useState(null) of feedback; a feedback object carries, as history, the
\* number of the user response it was set for.
NoFeedback == [present |-> FALSE, submission |-> 0, score |-> 0, feedback |-> ""]

Feedback(n, score, text) == [present |-> TRUE, submission |-> n, score |-> score, feedback |-> text]

\* useState({ total_simulations: 0, correct_count: 0, avg_response_time: 0 })
InitialStats ==
    [total_simulations |-> 0,
     correct_count |-> [null |-> FALSE, val |-> 0],
     avg_response_time |-> [null |-> FALSE, sum |-> 0, n |-> 1]]

\* The views of the employee role that have handlers.
Views == {"dashboard", "email-sim", "deepfake-sim", "phone-sim", "reports"}

\* One of the red flags the user can tick.
Flags == {"Urgent or Threatening Language"}

\* The scores an AI analysis is answered with: at most 70, above 70.
AnalysisScores == {40, 85}

MaxSubmissions == 1

NoBody == ResultBody(Absent, Absent, Absent, Absent, Absent)

\* A handler invocation suspended at an await.
Task(kind, pc, n, view, body) ==
    [kind |-> kind, pc |-> pc, submission |-> n, view |-> view, body |-> body]

FetchStatsTask == Task("fetchStats", "fetch", 0, "", NoBody)

FetchReportsTask == Task("fetchReports", "fetch", 0, "", NoBody)

\* The invocations the user started (the fetches they spawn come on top).
UserTasks == {t \in tasks : t.kind \notin {"fetchStats", "fetchReports"}}

\* The model lets the user start a handler when none they started is suspended:
\* one start, guess or submit handler in flight at a time, beside the fetches.
CanStart(t) == UserTasks = {}

\* JSON body of the client's POST /api/results.
ClientBody(simId, isCorrect, responseTime, text) ==
    [ResultBody(Absent, Val(simId), Absent, Val(IF isCorrect THEN 1 ELSE 0), Val(responseTime))
        EXCEPT !.feedback = IF text = "" THEN Absent ELSE Val(1)]

\* startEmailSimulation up to its await; view is the view it leaves current.
StartEmailSimulation(view) ==
    /\ CanStart(Task("startEmailSimulation", "generate", 0, "", NoBody))
    /\ currentView' = view
    /\ loading' = TRUE
    /\ feedback' = NoFeedback
    /\ selectedFlags' = {}
    /\ tasks' = tasks \cup {Task("startEmailSimulation", "generate", 0, "", NoBody)}
    /\ UNCHANGED <<emailSim, phoneSim, deepfakeAudio, deepfakeSolution, stats, reports,
                   analyses, submissions, stored, phoneLog>>

\* startPhoneSimulation up to its await (the script request of generatePhoneSimulation).
StartPhoneSimulation(view) ==
    /\ CanStart(Task("startPhoneSimulation", "script", 0, "", NoBody))
    /\ currentView' = view
    /\ loading' = TRUE
    /\ feedback' = NoFeedback
    /\ selectedFlags' = {}
    /\ tasks' = tasks \cup {Task("startPhoneSimulation", "script", 0, "", NoBody)}
    /\ phoneLog' = <<"script requested">>
    /\ UNCHANGED <<emailSim, phoneSim, deepfakeAudio, deepfakeSolution, stats, reports,
                   analyses, submissions, stored>>

\* startDeepfakeChallenge up to its await.
StartDeepfakeChallenge(view) ==
    /\ CanStart(Task("startDeepfakeChallenge", "audio", 0, "", NoBody))
    /\ currentView' = view
    /\ loading' = TRUE
    /\ feedback' = NoFeedback
    /\ tasks' = tasks \cup {Task("startDeepfakeChallenge", "audio", 0, "", NoBody)}
    /\ UNCHANGED <<emailSim, phoneSim, deepfakeAudio, deepfakeSolution, selectedFlags,
                   stats, reports, analyses, submissions, stored, phoneLog>>

\* The sidebar: Dashboard.
NavDashboard ==
    /\ currentView' = "dashboard"
    /\ UNCHANGED <<emailSim, phoneSim, deepfakeAudio, deepfakeSolution, loading,
                   selectedFlags, feedback, stats, reports, tasks, analyses, submissions, stored, phoneLog>>

\* The sidebar: Email Sim.
NavEmail ==
    IF emailSim = "null" THEN StartEmailSimulation("email-sim")
    ELSE /\ currentView' = "email-sim"
         /\ UNCHANGED <<emailSim, phoneSim, deepfakeAudio, deepfakeSolution, loading,
                        selectedFlags, feedback, stats, reports, tasks, analyses, submissions, stored, phoneLog>>

\* The sidebar: Deepfake Lab.
NavDeepfake ==
    IF deepfakeAudio = "null" THEN StartDeepfakeChallenge("deepfake-sim")
    ELSE /\ currentView' = "deepfake-sim"
         /\ UNCHANGED <<emailSim, phoneSim, deepfakeAudio, deepfakeSolution, loading,
                        selectedFlags, feedback, stats, reports, tasks, analyses, submissions, stored, phoneLog>>

\* The sidebar: Phone Sim.
NavPhone ==
    IF phoneSim = "null" THEN StartPhoneSimulation("phone-sim")
    ELSE /\ currentView' = "phone-sim"
         /\ UNCHANGED <<emailSim, phoneSim, deepfakeAudio, deepfakeSolution, loading,
                        selectedFlags, feedback, stats, reports, tasks, analyses, submissions, stored, phoneLog>>

\* The sidebar: Reports.
NavReports ==
    /\ currentView' = "reports"
    /\ tasks' = tasks \cup {FetchReportsTask}
    /\ UNCHANGED <<emailSim, phoneSim, deepfakeAudio, deepfakeSolution, loading,
                   selectedFlags, feedback, stats, reports, analyses, submissions, stored, phoneLog>>

\* The buttons that call startEmailSimulation: "Resume Training" and
\* "Start Simulation" on the dashboard, "Try Another" under the feedback.
ClickStartEmail ==
    /\ \/ currentView = "dashboard"
       \/ currentView = "email-sim" /\ feedback.present
    /\ StartEmailSimulation(currentView)

\* "Enter Lab" on the dashboard, "New Challenge" under the feedback.
ClickStartDeepfake ==
    /\ \/ currentView = "dashboard" /\ ~loading
       \/ currentView = "deepfake-sim" /\ feedback.present
    /\ StartDeepfakeChallenge(currentView)

\* "Load New Scenario" of the phone view.
ClickStartPhone ==
    /\ currentView = "phone-sim" /\ phoneSim = "null" /\ ~loading
    /\ StartPhoneSimulation(currentView)

\* A red flag is ticked or unticked.
ToggleFlag ==
    /\ currentView = "email-sim" \/ (currentView = "phone-sim" /\ phoneSim # "null")
    /\ \E flag \in Flags :
          selectedFlags' = IF flag \in selectedFlags THEN selectedFlags \ {flag}
                           ELSE selectedFlags \cup {flag}
    /\ UNCHANGED <<currentView, emailSim, phoneSim, deepfakeAudio, deepfakeSolution, loading,
                   feedback, stats, reports, tasks, analyses, submissions, stored, phoneLog>>

\* The texts handleDeepfakeGuess chooses between.
CorrectMsg == "Correct! You identified the synthetic patterns in the voice."

IncorrectMsg == "Incorrect. This was an AI-generated clone."

\* handleDeepfakeGuess(guess) up to its await: the verdict and the feedback are
\* computed in the handler, the result is posted.
HandleDeepfakeGuess(guess) ==
    LET isCorrect == guess = deepfakeSolution
        feedbackMsg == IF isCorrect THEN CorrectMsg ELSE IncorrectMsg
        n == submissions + 1
        t == Task("handleDeepfakeGuess", "post", n, currentView,
                  ClientBody(3, isCorrect, 15000, feedbackMsg))
    IN /\ currentView = "deepfake-sim" /\ ~feedback.present
       /\ deepfakeSolution # "null"
       /\ submissions < MaxSubmissions /\ CanStart(t)
       /\ submissions' = n
       /\ feedback' = Feedback(n, IF isCorrect THEN 100 ELSE 0, feedbackMsg)
       /\ tasks' = tasks \cup {t}
       /\ UNCHANGED <<currentView, emailSim, phoneSim, deepfakeAudio, deepfakeSolution,
                      loading, selectedFlags, stats, reports, analyses, stored, phoneLog>>

\* submitAnalysis up to its await: the analyzeSimulationResponse request.
SubmitAnalysis ==
    LET n == submissions + 1
        t == Task("submitAnalysis", "analyze", n, currentView, NoBody)
    IN /\ \/ /\ currentView = "email-sim"
             /\ ~loading /\ emailSim # "null" /\ selectedFlags # {}
          \/ /\ currentView = "phone-sim"
             /\ phoneSim # "null"
       /\ submissions < MaxSubmissions /\ CanStart(t)
       /\ submissions' = n
       /\ loading' = TRUE
       /\ analyses' = analyses \cup {[submission |-> n, answered |-> FALSE, score |-> 0]}
       /\ tasks' = tasks \cup {t}
       /\ UNCHANGED <<currentView, emailSim, phoneSim, deepfakeAudio, deepfakeSolution,
                      selectedFlags, feedback, stats, reports, stored, phoneLog>>

\* submitAnalysis resumes with the analysis: the feedback is the AI's result,
\* which is then posted (the view is the one of the render that submitted).
AnalysisResolves(t, score) ==
    /\ t \in tasks /\ t.kind = "submitAnalysis" /\ t.pc = "analyze"
    /\ feedback' = Feedback(t.submission, score, "AI coaching")
    /\ analyses' = (analyses \ {[submission |-> t.submission, answered |-> FALSE, score |-> 0]})
                      \cup {[submission |-> t.submission, answered |-> TRUE, score |-> score]}
    /\ tasks' = (tasks \ {t}) \cup
                  {Task("submitAnalysis", "post", t.submission, t.view,
                        ClientBody(IF t.view = "email-sim" THEN 1 ELSE 2, score > 70,
                                   45000, "AI coaching"))}
    /\ UNCHANGED <<currentView, emailSim, phoneSim, deepfakeAudio, deepfakeSolution,
                   loading, selectedFlags, stats, reports, submissions, stored, phoneLog>>

\* The analysis request fails: catch, finally setLoading(false).
AnalysisRejects(t) ==
    /\ t \in tasks /\ t.kind = "submitAnalysis" /\ t.pc = "analyze"
    /\ loading' = FALSE
    /\ tasks' = tasks \ {t}
    /\ UNCHANGED <<currentView, emailSim, phoneSim, deepfakeAudio, deepfakeSolution,
                   selectedFlags, feedback, stats, reports, analyses, submissions, stored, phoneLog>>

\* The POST of a handler is answered (with any status): the backend has
\* handled it; the handler calls fetchStats() and fetchReports() and ends.
PostAnswered(t) ==
    /\ t \in tasks /\ t.pc = "post"
    /\ PostResults(t.body)
    /\ tasks' = (tasks \ {t}) \cup {FetchStatsTask, FetchReportsTask}
    /\ loading' = IF t.kind = "submitAnalysis" THEN FALSE ELSE loading
    /\ stored' = IF res'.status = 200 THEN stored \cup {t.submission} ELSE stored
    /\ UNCHANGED <<currentView, emailSim, phoneSim, deepfakeAudio, deepfakeSolution,
                   selectedFlags, feedback, stats, reports, analyses, submissions,
                   phoneLog>>

\* The POST fails on the network: fetch rejects and the handler ends.
PostRejects(t) ==
    /\ t \in tasks /\ t.pc = "post"
    /\ tasks' = tasks \ {t}
    /\ loading' = IF t.kind = "submitAnalysis" THEN FALSE ELSE loading
    /\ UNCHANGED <<currentView, emailSim, phoneSim, deepfakeAudio, deepfakeSolution,
                   selectedFlags, feedback, stats, reports, analyses, submissions, stored, phoneLog>>

\* fetchStats resumes with the answer of GET /api/stats.
FetchStatsAnswered ==
    /\ FetchStatsTask \in tasks
    /\ GetStats
    /\ stats' = res'.body
    /\ tasks' = tasks \ {FetchStatsTask}
    /\ UNCHANGED <<currentView, emailSim, phoneSim, deepfakeAudio, deepfakeSolution,
                   loading, selectedFlags, feedback, reports, analyses, submissions, stored, phoneLog>>

\* fetchReports resumes with the answer of GET /api/reports.
FetchReportsAnswered ==
    /\ FetchReportsTask \in tasks
    /\ GetReports
    /\ reports' = res'.body
    /\ tasks' = tasks \ {FetchReportsTask}
    /\ UNCHANGED <<currentView, emailSim, phoneSim, deepfakeAudio, deepfakeSolution,
                   loading, selectedFlags, feedback, stats, analyses, submissions, stored, phoneLog>>

\* fetchStats or fetchReports fails on the network: console.error.
FetchRejects(t) ==
    /\ t \in tasks /\ t.pc = "fetch"
    /\ tasks' = tasks \ {t}
    /\ UNCHANGED <<currentView, emailSim, phoneSim, deepfakeAudio, deepfakeSolution,
                   loading, selectedFlags, feedback, stats, reports, analyses, submissions, stored, phoneLog>>

\* startEmailSimulation resumes with the generated email.
EmailGenerated(t) ==
    /\ t \in tasks /\ t.kind = "startEmailSimulation"
    /\ emailSim' = "email"
    /\ currentView' = "email-sim"
    /\ loading' = FALSE
    /\ tasks' = tasks \ {t}
    /\ UNCHANGED <<phoneSim, deepfakeAudio, deepfakeSolution, selectedFlags, feedback,
                   stats, reports, analyses, submissions, stored, phoneLog>>

\* startDeepfakeChallenge resumes with the audio.
DeepfakeAudioGenerated(t) ==
    /\ t \in tasks /\ t.kind = "startDeepfakeChallenge"
    /\ deepfakeAudio' = "audio"
    /\ deepfakeSolution' = "synthetic"
    /\ currentView' = "deepfake-sim"
    /\ loading' = FALSE
    /\ tasks' = tasks \ {t}
    /\ UNCHANGED <<emailSim, phoneSim, selectedFlags, feedback, stats, reports,
                   analyses, submissions, stored, phoneLog>>

\* generatePhoneSimulation: the script arrived and is not blank; the audio
\* request (generateDeepfakeAudio) is issued.
PhoneScriptGenerated(t) ==
    /\ t \in tasks /\ t.kind = "startPhoneSimulation" /\ t.pc = "script"
    /\ tasks' = (tasks \ {t}) \cup {Task("startPhoneSimulation", "audio", 0, "", NoBody)}
    /\ phoneLog' = phoneLog \o <<"script answered", "audio requested">>
    /\ UNCHANGED <<currentView, emailSim, phoneSim, deepfakeAudio, deepfakeSolution,
                   loading, selectedFlags, feedback, stats, reports, analyses, submissions, stored>>

\* generatePhoneSimulation resolves with script and audio; startPhoneSimulation resumes.
PhoneAudioGenerated(t) ==
    /\ t \in tasks /\ t.kind = "startPhoneSimulation" /\ t.pc = "audio"
    /\ phoneSim' = "phone"
    /\ currentView' = "phone-sim"
    /\ loading' = FALSE
    /\ tasks' = tasks \ {t}
    /\ phoneLog' = phoneLog \o <<"audio answered", "resolved">>
    /\ UNCHANGED <<emailSim, deepfakeAudio, deepfakeSolution, selectedFlags, feedback,
                   stats, reports, analyses, submissions, stored>>

\* What the failure of a generation request adds to the history of the
\* generatePhoneSimulation call.
PhoneLogRejected(t) ==
    IF t.kind # "startPhoneSimulation" THEN phoneLog
    ELSE IF t.pc = "script" THEN phoneLog \o <<"rejected">>
    ELSE phoneLog \o <<"audio failed", "rejected">>

\* As if generatePhoneSimulation caught the failure of the audio request and
\* returned the script alone.
GenerationRejectsScriptOnly(t) ==
    /\ t \in tasks
    /\ t.kind \in {"startEmailSimulation", "startDeepfakeChallenge", "startPhoneSimulation"}
    /\ loading' = FALSE
    /\ tasks' = tasks \ {t}
    /\ phoneLog' = PhoneLogRejected(t)
    /\ IF t.kind = "startPhoneSimulation" /\ t.pc = "audio"
       THEN phoneSim' = "script only" /\ currentView' = "phone-sim"
       ELSE UNCHANGED <<phoneSim, currentView>>
    /\ UNCHANGED <<emailSim, deepfakeAudio, deepfakeSolution,
                   selectedFlags, feedback, stats, reports, analyses, submissions, stored>>

\* A generation request of a start handler fails (the request, its parsing, a
\* blank script or an answer without audio): catch, finally setLoading(false).
GenerationRejects(t) ==
    /\ t \in tasks
    /\ t.kind \in {"startEmailSimulation", "startDeepfakeChallenge", "startPhoneSimulation"}
    /\ loading' = FALSE
    /\ tasks' = tasks \ {t}
    /\ phoneLog' = PhoneLogRejected(t)
    /\ UNCHANGED <<currentView, emailSim, phoneSim, deepfakeAudio, deepfakeSolution,
                   selectedFlags, feedback, stats, reports, analyses, submissions, stored>>

ClientOnly == UNCHANGED <<wavVars, dbVars>>

NextApp ==
    \/ NavDashboard /\ ClientOnly
    \/ NavEmail /\ ClientOnly
    \/ NavDeepfake /\ ClientOnly
    \/ NavPhone /\ ClientOnly
    \/ NavReports /\ ClientOnly
    \/ ClickStartEmail /\ ClientOnly
    \/ ClickStartDeepfake /\ ClientOnly
    \/ ClickStartPhone /\ ClientOnly
    \/ ToggleFlag /\ ClientOnly
    \/ (\E guess \in {"authentic", "synthetic"} : HandleDeepfakeGuess(guess)) /\ ClientOnly
    \/ SubmitAnalysis /\ ClientOnly
    \/ (\E t \in tasks, score \in AnalysisScores : AnalysisResolves(t, score)) /\ ClientOnly
    \/ (\E t \in tasks : AnalysisRejects(t)) /\ ClientOnly
    \/ (\E t \in tasks : PostAnswered(t)) /\ UNCHANGED wavVars
    \/ (\E t \in tasks : PostRejects(t)) /\ ClientOnly
    \/ (\E t \in tasks : FetchRejects(t)) /\ ClientOnly
    \/ (\E t \in tasks : EmailGenerated(t)) /\ ClientOnly
    \/ (\E t \in tasks : DeepfakeAudioGenerated(t)) /\ ClientOnly
    \/ (\E t \in tasks : PhoneScriptGenerated(t)) /\ ClientOnly
    \/ (\E t \in tasks : PhoneAudioGenerated(t)) /\ ClientOnly
    \/ (\E t \in tasks : GenerationRejects(t)) /\ ClientOnly
    \/ FetchStatsAnswered /\ UNCHANGED <<wavVars, employees, simulations, campaigns, results, now, posted>>
    \/ FetchReportsAnswered /\ UNCHANGED <<wavVars, employees, simulations, campaigns, results, now, posted>>

\* The client when every request to the backend is delivered and answered:
\* NextApp without the network failures of the POST and of the fetches.
NextAppDelivered ==
    \/ NavDashboard /\ ClientOnly
    \/ NavEmail /\ ClientOnly
    \/ NavDeepfake /\ ClientOnly
    \/ NavPhone /\ ClientOnly
    \/ NavReports /\ ClientOnly
    \/ ClickStartEmail /\ ClientOnly
    \/ ClickStartDeepfake /\ ClientOnly
    \/ ClickStartPhone /\ ClientOnly
    \/ ToggleFlag /\ ClientOnly
    \/ (\E guess \in {"authentic", "synthetic"} : HandleDeepfakeGuess(guess)) /\ ClientOnly
    \/ SubmitAnalysis /\ ClientOnly
    \/ (\E t \in tasks, score \in AnalysisScores : AnalysisResolves(t, score)) /\ ClientOnly
    \/ (\E t \in tasks : AnalysisRejects(t)) /\ ClientOnly
    \/ (\E t \in tasks : PostAnswered(t)) /\ UNCHANGED wavVars
    \/ (\E t \in tasks : EmailGenerated(t)) /\ ClientOnly
    \/ (\E t \in tasks : DeepfakeAudioGenerated(t)) /\ ClientOnly
    \/ (\E t \in tasks : PhoneScriptGenerated(t)) /\ ClientOnly
    \/ (\E t \in tasks : PhoneAudioGenerated(t)) /\ ClientOnly
    \/ (\E t \in tasks : GenerationRejects(t)) /\ ClientOnly
    \/ FetchStatsAnswered /\ UNCHANGED <<wavVars, employees, simulations, campaigns, results, now, posted>>
    \/ FetchReportsAnswered /\ UNCHANGED <<wavVars, employees, simulations, campaigns, results, now, posted>>

\* A POST /api/results the client has sent is delivered and answered.
PostDelivered == (\E t \in tasks : PostAnswered(t)) /\ UNCHANGED wavVars

\* A GET of fetchStats or fetchReports is delivered and answered.
FetchDelivered ==
    \/ FetchStatsAnswered /\ UNCHANGED <<wavVars, employees, simulations, campaigns, results, now, posted>>
    \/ FetchReportsAnswered /\ UNCHANGED <<wavVars, employees, simulations, campaigns, results, now, posted>>

(***************************************************************************)
(* Reading a buffer back: little-endian fields and a RIFF/WAVE parser      *)
(***************************************************************************)
U16At(buf, off) == buf[off] + 256 * buf[off + 1]

U32At(buf, off) == W(buf[off + 2] + 256 * buf[off + 3], buf[off] + 256 * buf[off + 1])

TagAt(buf, off) == <<buf[off], buf[off + 1], buf[off + 2], buf[off + 3]>>

IsByteBuffer(buf) ==
    /\ DOMAIN buf = 0..(BufLen(buf) - 1)
    /\ \A i \in DOMAIN buf : buf[i] \in 0..255

HeaderBuilt == wavOp \in {"createWavHeader", "playAudio"}

RECURSIVE FindChunk(_, _, _)
\* The offset of the first chunk tagged id at or after off, walking the chunk
\* list by the chunks' own sizes (odd sizes are padded to even); -1 if none.
FindChunk(buf, off, id) ==
    IF off + 8 > BufLen(buf) THEN -1
    ELSE IF TagAt(buf, off) = id THEN off
    ELSE LET size == U32At(buf, off + 4) IN
         IF size.hi > 0 THEN -1
         ELSE FindChunk(buf, off + 8 + size.lo + (size.lo % 2), id)

\* What a WAV reader recovers from buf.
ParseWav(buf) ==
    LET fmt == FindChunk(buf, 12, StrFmt)
        dat == FindChunk(buf, 12, StrData)
        bad == [ok |-> FALSE, format |-> 0, channels |-> 0, sampleRate |-> W(0, 0),
                bitsPerSample |-> 0, data |-> <<>>]
    IN IF BufLen(buf) < 12 \/ ~IsByteBuffer(buf) THEN bad
       ELSE IF TagAt(buf, 0) # StrRIFF \/ TagAt(buf, 8) # StrWAVE THEN bad
       ELSE IF fmt < 0 \/ dat < 0 THEN bad
       ELSE IF fmt + 24 > BufLen(buf) THEN bad
       ELSE LET size == U32At(buf, dat + 4) IN
            IF size.hi > 0 \/ dat + 8 + size.lo > BufLen(buf) THEN bad
            ELSE [ok |-> TRUE,
                  format |-> U16At(buf, fmt + 8),
                  channels |-> U16At(buf, fmt + 10),
                  sampleRate |-> U32At(buf, fmt + 12),
                  bitsPerSample |-> U16At(buf, fmt + 22),
                  data |-> [i \in 1..size.lo |-> buf[dat + 8 + i - 1]]]

(***************************************************************************)
(* Claims on the WAV header (specification SpecWav)                        *)
(***************************************************************************)

\* C1: createWavHeader returns exactly 44 bytes (offsets 0..43, each a byte)
\* for every dataLength and sampleRate, and so does the header playAudio
\* prepends.
C1_HeaderIs44Bytes ==
    HeaderBuilt => /\ BufLen(header) = 44
                   /\ IsByteBuffer(header)

C1_Witness ==
    /\ wavOp = "createWavHeader"
    /\ hdrArgs.dataLength = W(65536, 0)
    /\ hdrArgs.sampleRate = W(65535, 65535)
    /\ BufLen(header) = 44

\* C2: whenever 36 + N < 2^32, bytes 4-7 of the header hold 36 + N and bytes
\* 40-43 hold N, as unsigned 32-bit little-endian integers.
C2_LengthFields ==
    (HeaderBuilt /\ FitsUint32(WAdd(Wide(36), hdrArgs.dataLength))) =>
        /\ U32At(header, 4) = WAdd(Wide(36), hdrArgs.dataLength)
        /\ U32At(header, 40) = hdrArgs.dataLength

\* N = 2^32 - 37: the RIFF field is 0xFFFFFFFF, the data field 0xFFFFFFDB.
C2_Witness ==
    /\ wavOp = "createWavHeader"
    /\ hdrArgs.dataLength = W(65535, 65499)
    /\ TagAt(header, 4) = <<255, 255, 255, 255>>
    /\ TagAt(header, 40) = <<219, 255, 255, 255>>

\* C3: a WAV reader of the buffer playAudio builds recovers PCM (format 1),
\* sample rate 24000, 1 channel, 16 bits per sample and a data chunk equal to
\* the bytes atob decoded from the input, in order.
C3_RoundTrip ==
    wavOp = "playAudio" =>
        LET wav == ParseWav(wavBytes) IN
        /\ wav.ok
        /\ wav.sampleRate = W(0, 24000)
        /\ wav.channels = 1
        /\ wav.bitsPerSample = 16
        /\ wav.data = atob(base64).str

\* "//8A" decodes to the three bytes 255, 255, 0; here "/VA=" -> 253, 80.
C3_Witness ==
    /\ wavOp = "playAudio"
    /\ base64 = <<47, 86, 65, 61>>
    /\ ParseWav(wavBytes).data = <<253, 80>>

\* C4: for an input that decodes to N bytes the buffer playAudio plays has
\* length 44 + N, its RIFF size field is the buffer length minus 8 and its
\* data size field is the number of bytes after the 44-byte header.
C4_PlayedBufferSizes ==
    wavOp = "playAudio" =>
        /\ BufLen(wavBytes) = 44 + Len(atob(base64).str)
        /\ IsByteBuffer(wavBytes)
        /\ U32At(wavBytes, 4) = Wide(BufLen(wavBytes) - 8)
        /\ U32At(wavBytes, 40) = Wide(BufLen(wavBytes) - 44)

C4_Witness ==
    /\ wavOp = "playAudio"
    /\ BufLen(wavBytes) = 47
    /\ U32At(wavBytes, 4) = W(0, 39)
    /\ U32At(wavBytes, 40) = W(0, 3)

\* C5: the finished header holds "RIFF" at 0-3, "WAVE" at 8-11, "fmt " at
\* 12-15 and "data" at 36-39, one byte per character, whatever the fields
\* written after them hold.
C5_Tags ==
    HeaderBuilt =>
        /\ TagAt(header, 0) = <<82, 73, 70, 70>>
        /\ TagAt(header, 8) = <<87, 65, 86, 69>>
        /\ TagAt(header, 12) = <<102, 109, 116, 32>>
        /\ TagAt(header, 36) = <<100, 97, 116, 97>>

\* Every variable field byte next to a tag is 0xFF.
C5_Witness ==
    /\ wavOp = "createWavHeader"
    /\ hdrArgs.dataLength = W(65535, 65499)
    /\ hdrArgs.sampleRate = W(65535, 65535)
    /\ header[7] = 255 /\ header[40] = 219
    /\ TagAt(header, 36) = <<100, 97, 116, 97>>

\* C6: a header built for sample rate 24000 (the one playAudio builds) holds
\* 16 at 16-19, 1 at 20-21, 1 at 22-23, 24000 at 24-27, 2 at 32-33 and 16 at
\* 34-35, little-endian, for every N.
C6_FormatFields ==
    (HeaderBuilt /\ hdrArgs.sampleRate = W(0, 24000)) =>
        /\ U32At(header, 16) = W(0, 16)
        /\ U16At(header, 20) = 1
        /\ U16At(header, 22) = 1
        /\ U32At(header, 24) = W(0, 24000)
        /\ U16At(header, 32) = 2
        /\ U16At(header, 34) = 16

C6_Witness ==
    /\ wavOp = "playAudio"
    /\ BufLen(bytes) = 2
    /\ TagAt(header, 24) = <<192, 93, 0, 0>>
    /\ TagAt(header, 20) = <<1, 0, 1, 0>>

\* C7: for a sample rate r (a natural number) with 2 * r < 2^32 the byte-rate
\* field equals the sample-rate field times the block-align field, and the
\* block-align field equals channels times bits per sample divided by 8.
C7_ByteRate ==
    (HeaderBuilt /\ FitsUint32(WMul(hdrArgs.sampleRate, 2))) =>
        /\ U32At(header, 28) = WMul(U32At(header, 24), U16At(header, 32))
        /\ U32At(header, 24) = hdrArgs.sampleRate
        /\ U16At(header, 32) * 8 = U16At(header, 22) * U16At(header, 34)

\* r = 2^31 - 1: the byte rate is 0xFFFFFFFE.
C7_Witness ==
    /\ wavOp = "createWavHeader"
    /\ hdrArgs.sampleRate = W(32767, 65535)
    /\ TagAt(header, 28) = <<254, 255, 255, 255>>

(***************************************************************************)
(* Claims on the backend                                                   *)
(***************************************************************************)
\* The successful posts that count for employee 1 in the words of C8:
\* employee_id absent or 1.
PostedAbsentOrOne == SelectSeq(posted, LAMBDA b : ~b.employee_id.present \/ b.employee_id.val = 1)

\* The successful posts the handler stored for employee 1: employee_id || 1 is 1.
PostedForOne == SelectSeq(posted, LAMBDA b : OrElse(b.employee_id, 1) = 1)

CorrectOnes(bodies) == SelectSeq(bodies, LAMBDA b : Truthy(b.is_correct))

StatsAnswered == res.route = "GET /api/stats" /\ res.status = 200

\* C8 as stated: after successful posts with at least one result for employee
\* 1 (employee_id absent or 1), GET /api/stats reports total_simulations = the
\* number of those results and correct_count = the number of them posted
\* with a truthy is_correct.
C8_Original ==
    (StatsAnswered /\ PostedAbsentOrOne # <<>>) =>
        /\ res.body.total_simulations = Len(PostedAbsentOrOne)
        /\ ~res.body.correct_count.null
        /\ res.body.correct_count.val = Len(CorrectOnes(PostedAbsentOrOne))

\* C8, amended: the results for employee 1 are those posted with a falsy
\* employee_id (absent, null, 0, false) or with employee_id 1; after successful
\* posts with at least one of them, GET /api/stats reports total_simulations
\* = their number and correct_count = the number of them with a truthy
\* is_correct.
C8_StatsCountEmployeeOne ==
    (StatsAnswered /\ PostedForOne # <<>>) =>
        /\ res.body.total_simulations = Len(PostedForOne)
        /\ ~res.body.correct_count.null
        /\ res.body.correct_count.val = Len(CorrectOnes(PostedForOne))

\* Two results stored, one for employee 1 (posted with employee_id 0, correct)
\* and one for employee 2: the statistics count one simulation, one correct.
C8_Witness ==
    /\ StatsAnswered
    /\ Len(posted) = 2
    /\ posted[1].employee_id = Val(2)
    /\ posted[2].employee_id = Val(0)
    /\ res.body.total_simulations = 1
    /\ res.body.correct_count = [null |-> FALSE, val |-> 1]

\* C9 as stated: every handler runs exactly one SQL statement per request.
C9_Original ==
    res.route # "none" => Len(sqlLog) = 1

\* C9, amended: every handler runs exactly one SQL statement per request,
\* except GET /api/health, which runs none, and POST /api/results, which runs
\* the results insert, before it the simulations insert when simulation_id is
\* falsy, and after it the score update when the insert succeeded (two or
\* three statements on success, one or two when the insert throws).
C9_StatementsPerRequest ==
    res.route # "none" =>
        IF res.route = "GET /api/health" THEN sqlLog = <<>>
        ELSE IF res.route = "POST /api/results"
        THEN IF res.status = 200
             THEN Len(sqlLog) =
                    2 + (IF Truthy(posted[Len(posted)].simulation_id) THEN 0 ELSE 1)
             ELSE Len(sqlLog) \in {1, 2}
        ELSE Len(sqlLog) = 1

\* A result posted without simulation_id and stored, with a campaign in the
\* database: three statements.
C9_Witness ==
    /\ res.route = "POST /api/results" /\ res.status = 200
    /\ sqlLog = <<"INSERT INTO simulations", "INSERT INTO results", "UPDATE employees">>
    /\ Len(campaigns) = 1

(***************************************************************************)
(* Claims on the client                                                    *)
(***************************************************************************)
\* C10: every feedback shown for a user response is the outcome of an
\* analyzeSimulationResponse request issued for that response beforehand:
\* when feedback is set, the history of analysis requests holds one for the
\* same response, answered with the score the feedback shows.
C10_FeedbackFromAnalysis ==
    feedback.present =>
        \E a \in analyses :
            /\ a.submission = feedback.submission
            /\ a.answered
            /\ a.score = feedback.score

\* C11: whenever feedback for a submission is shown, a results row for that
\* submission is eventually stored by POST /api/results, the requests being
\* delivered, from the freshly seeded database.
C11_FeedbackThenStored ==
    \A n \in 1..MaxSubmissions :
        (feedback.present /\ feedback.submission = n) ~> (n \in stored)

(***************************************************************************)
(* Claims on the scores                                                    *)
(***************************************************************************)
\* C12: after any sequence of POST /api/results requests every employee's
\* security_score is within 0..100.
C12_ScoresInRange == \A id \in DOMAIN employees : employees[id] \in 0..100

\* Employee 1, at score 0 after twenty wrong answers, answered right (score 2)
\* and then wrong: the score is held at 0.
C12_Witness ==
    /\ res.route = "POST /api/results" /\ res.status = 200
    /\ Len(posted) = 2
    /\ Truthy(posted[1].is_correct) /\ OrElse(posted[1].employee_id, 1) = 1
    /\ ~Truthy(posted[2].is_correct) /\ OrElse(posted[2].employee_id, 1) = 1
    /\ employees[1] = 0

\* The score the claim expects after an answer.
Lowered(score) == IF score - 5 < 0 THEN 0 ELSE score - 5

Raised(score) == IF score + 2 > 100 THEN 100 ELSE score + 2

\* The employee the claim names: employee_id, or 1 when it is absent.
ClaimedTarget(body) == IF body.employee_id.present THEN body.employee_id.val ELSE 1

\* C13 as stated: every POST /api/results with a falsy is_correct lowers the
\* score of the employee employee_id (1 when absent) by 5, not below 0, and
\* with a truthy is_correct raises it by 2, not above 100.
C13_Original ==
    [][\A body \in HistoryBodies :
          (PostResults(body) /\ ClaimedTarget(body) \in DOMAIN employees) =>
              employees'[ClaimedTarget(body)] =
                  IF Truthy(body.is_correct) THEN Raised(employees[ClaimedTarget(body)])
                  ELSE Lowered(employees[ClaimedTarget(body)])]_vars

\* C13: a POST /api/results that stores its result (status 200) lowers the
\* score of employee employee_id || 1 by 5, not below 0, when is_correct is
\* falsy and raises it by 2, not above 100, when truthy, and changes no other
\* score; a POST whose insert fails (status 500) changes no score.
C13_ScoreUpdate ==
    [][\A body \in HistoryBodies :
          PostResults(body) =>
              IF res'.status = 200
              THEN \A id \in DOMAIN employees :
                      employees'[id] =
                          IF id # OrElse(body.employee_id, 1) THEN employees[id]
                          ELSE IF Truthy(body.is_correct) THEN Raised(employees[id])
                          ELSE Lowered(employees[id])
              ELSE employees' = employees]_vars

\* On the fresh database a right answer with the falsy employee_id 0 is
\* stored for employee 1, whose score stays at 100.
C13_Witness ==
    /\ res.route = "POST /api/results" /\ res.status = 200
    /\ posted = <<ResultBody(Val(0), Absent, Absent, Val(1), Absent)>>
    /\ Len(results) = 1 /\ results[1].employee_id = 1
    /\ employees[1] = 100

(***************************************************************************)
(* Claims on the simulations insert                                        *)
(***************************************************************************)
\* The simulations row the handler inserts for a result without simulation.
UnknownSimulation == [id |-> Len(simulations) + 1, type |-> "unknown", difficulty |-> 1]

\* The results table got one more row, stored against simulation simId.
StoredAgainst(simId) ==
    /\ Len(results') = Len(results) + 1
    /\ SubSeq(results', 1, Len(results)) = results
    /\ results'[Len(results')].simulation_id = simId

\* C17 as stated: every POST /api/results with a falsy simulation_id inserts
\* one simulations row ('unknown', 1) and stores the result against its id;
\* with a truthy simulation_id it inserts none and stores the result against
\* the given id.
C17_Original ==
    [][\A body \in ResultBodies :
          PostResults(body) =>
              IF ~Truthy(body.simulation_id)
              THEN /\ simulations' = Append(simulations, UnknownSimulation)
                   /\ StoredAgainst(UnknownSimulation.id)
              ELSE /\ simulations' = simulations
                   /\ StoredAgainst(body.simulation_id.val)]_vars

\* C17: a POST /api/results with a falsy simulation_id inserts one
\* simulations row ('unknown', 1), with a truthy one none; when the results
\* insert succeeds (status 200) the result is stored against the new row's
\* id, respectively the given id; when it fails (status 500) no result is
\* stored and the simulations row inserted stays.
C17_SimulationInsert ==
    [][\A body \in ResultBodies :
          PostResults(body) =>
              /\ simulations' = IF ~Truthy(body.simulation_id)
                                THEN Append(simulations, UnknownSimulation)
                                ELSE simulations
              /\ IF res'.status = 200
                 THEN StoredAgainst(IF ~Truthy(body.simulation_id) THEN UnknownSimulation.id
                                    ELSE body.simulation_id.val)
                 ELSE results' = results]_vars

\* A result posted with simulation_id 0 made simulation 1, and a result
\* posted with simulation_id 1 was then stored against it.
C17_Witness ==
    /\ res.route = "POST /api/results" /\ res.status = 200
    /\ Len(posted) = 2
    /\ posted[1].simulation_id = Val(0) /\ posted[2].simulation_id = Val(1)
    /\ Len(simulations) = 1 /\ simulations[1].type = "unknown"
    /\ results[1].simulation_id = 1 /\ results[2].simulation_id = 1

(***************************************************************************)
(* Claims on the reading handlers                                          *)
(***************************************************************************)
\* C14: when no results exist for employee 1, GET /api/stats answers
\* total_simulations = 0, correct_count = 0 and avg_response_time = 0, the
\* handler's fallback object, and no null.
C14_StatsZerosWhenEmpty ==
    (StatsAnswered /\ SelectSeq(results, LAMBDA r : r.employee_id = 1) = <<>>) =>
        /\ res.body.total_simulations = 0
        /\ ~res.body.correct_count.null /\ res.body.correct_count.val = 0
        /\ ~res.body.avg_response_time.null /\ res.body.avg_response_time.sum = 0

\* C15: once at least one result is stored, GET /api/admin/overview answers
\* total_sims = total_reports + total_compromises.
C15_OverviewTotals ==
    (res.route = "GET /api/admin/overview" /\ Len(results) >= 1) =>
        /\ ~res.body.total_reports.null /\ ~res.body.total_compromises.null
        /\ res.body.total_sims = res.body.total_reports.val + res.body.total_compromises.val

\* The overview of two stored results, one posted without is_correct and one
\* posted with a truthy is_correct.
C15_Witness ==
    /\ res.route = "GET /api/admin/overview" /\ res.status = 200
    /\ Len(posted) = 2
    /\ \E i, j \in 1..2 : ~posted[i].is_correct.present /\ Truthy(posted[j].is_correct)
    /\ res.body.total_sims = 2

\* The results of employee 1, and the ids GET /api/reports answered.
ResultsOfOne == SelectSeq(results, LAMBDA r : r.employee_id = 1)

ReportedIds == {res.body[i].id : i \in 1..Len(res.body)}

\* C16: GET /api/reports returns at most 20 rows, each a result of employee
\* 1 and none twice, in non-increasing created_at order, and they are the
\* most recent results of employee 1: as many as there are up to 20, and no
\* result left out is newer than one returned.
C16_Reports ==
    res.route = "GET /api/reports" =>
        /\ Len(res.body) <= 20
        /\ Len(res.body) = IF Len(ResultsOfOne) < 20 THEN Len(ResultsOfOne) ELSE 20
        /\ \A i \in 1..Len(res.body) :
              \E j \in 1..Len(results) :
                  /\ results[j].id = res.body[i].id
                  /\ results[j].employee_id = 1
                  /\ results[j].created_at = res.body[i].created_at
        /\ \A i, j \in 1..Len(res.body) : i < j =>
              /\ res.body[i].id # res.body[j].id
              /\ res.body[i].created_at >= res.body[j].created_at
        /\ \A j \in 1..Len(ResultsOfOne) :
              ResultsOfOne[j].id \notin ReportedIds =>
                  \A i \in 1..Len(res.body) : res.body[i].created_at >= ResultsOfOne[j].created_at

\* Twenty reports answered while employee 1 has more than twenty results and
\* employee 2 has one, the newest of employee 1 posted after the clock moved.
C16_Witness ==
    /\ res.route = "GET /api/reports" /\ res.status = 200
    /\ Len(res.body) = 20
    /\ Len(ResultsOfOne) > 20
    /\ \E j \in 1..Len(results) : results[j].employee_id = 2
    /\ res.body[1].created_at = 1

(***************************************************************************)
(* Claims on the generation functions                                      *)
(***************************************************************************)
\* A text that is undefined, empty, or made of white space only.
BlankText(text) ==
    ~text.present \/ \A i \in 1..Len(text.str) : text.str[i] \in JsWhitespace

\* C18: generateDeepfakeAudio resolves only with a non-empty string and else
\* rejects; for an empty or whitespace-only text it rejects without having
\* issued a TTS request; a response without audio data makes it reject.
C18_DeepfakeAudio ==
    /\ tts.pc = "resolved" =>
          /\ tts.value.present /\ tts.value.str # <<>>
          /\ tts.requests = 1 /\ tts.value = tts.data
    /\ (BlankText(tts.text) /\ tts.pc \notin {"idle", "called"}) =>
          tts.pc = "rejected" /\ tts.requests = 0
    /\ (tts.response = "answered" /\ (~tts.data.present \/ tts.data.str = <<>>)) =>
          tts.pc = "rejected"
    /\ tts.response = "failed" => tts.pc = "rejected"
    /\ tts.requests <= 1

\* The call rejected on a response whose audio data is the empty string,
\* for a text with white space around a letter.
C18_Witness ==
    /\ tts.pc = "rejected" /\ tts.requests = 1
    /\ tts.response = "answered" /\ tts.data = Str(<<>>)
    /\ tts.text = Str(<<32, 97, 10>>)

\* Position of an entry in the history of the generatePhoneSimulation call.
LogHas(entry) == \E i \in 1..Len(phoneLog) : phoneLog[i] = entry

\* What the history of a generatePhoneSimulation call must look like.
PhoneLogInOrder ==
    /\ \A i \in 1..Len(phoneLog) :
          phoneLog[i] = "audio requested" =>
              /\ i = 3 /\ phoneLog[1] = "script requested" /\ phoneLog[2] = "script answered"
    /\ LogHas("resolved") =>
          /\ phoneLog = <<"script requested", "script answered", "audio requested",
                          "audio answered", "resolved">>
    /\ LogHas("audio failed") =>
          /\ phoneLog[Len(phoneLog)] = "rejected" /\ ~LogHas("resolved")
    /\ phoneSim # "null" => phoneSim = "phone" /\ LogHas("resolved")

\* C19: generatePhoneSimulation issues the audio request only after the
\* script request was answered and resolves only after both were; when the
\* audio request fails the call rejects, no script-only result reaches
\* phoneSim, and the step in which startPhoneSimulation handles the rejection
\* leaves phoneSim and currentView unchanged.
C19_PhoneSimulation ==
    [][/\ PhoneLogInOrder'
       /\ (LogHas("audio failed")' /\ ~LogHas("audio failed")) =>
             /\ phoneSim' = phoneSim /\ currentView' = currentView
             /\ \A t \in tasks' : t.kind # "startPhoneSimulation"]_vars

\* The audio request of a call started from the sidebar failed after the user
\* had gone back to the dashboard: the call is over, with nothing in phoneSim.
C19_Witness ==
    /\ phoneLog = <<"script requested", "script answered", "audio requested",
                    "audio failed", "rejected">>
    /\ phoneSim = "null" /\ currentView = "dashboard" /\ ~loading

(***************************************************************************)
(* Specifications                                                          *)
(***************************************************************************)
\* One call of the audio pipeline: the entry point and its argument are drawn
\* here, the backend is the freshly seeded database and stays idle.
InitWav ==
    /\ \/ /\ wavOp = "callCreateWavHeader"
          /\ hdrArgs \in [dataLength : DataLengths, sampleRate : SampleRates]
          /\ base64 = <<>>
       \/ /\ wavOp = "callPlayAudio"
          /\ base64 \in SeqsUpTo(B64Chars, MaxB64Len)
          /\ hdrArgs = NoHeaderArgs
    /\ header = <<>> /\ bytes = <<>> /\ wavBytes = <<>> /\ audio = "null"
    /\ tts = NoTtsCall
    /\ employees = SeededEmployees
    /\ simulations = <<>> /\ campaigns = <<>> /\ results = <<>>
    /\ now = 0 /\ res = NoResponse /\ sqlLog = <<>> /\ posted = <<>>
    /\ currentView = "dashboard" /\ emailSim = "null" /\ phoneSim = "null"
    /\ deepfakeAudio = "null" /\ deepfakeSolution = "null"
    /\ loading = FALSE /\ selectedFlags = {} /\ feedback = NoFeedback
    /\ stats = InitialStats /\ reports = <<>>
    /\ tasks = {} /\ analyses = {} /\ submissions = 0 /\ stored = {}
    /\ phoneLog = <<>>

SpecWav == InitWav /\ [][NextWav]_vars

\* One call of generateDeepfakeAudio: the text and whether the API key is
\* set are drawn here.
InitTts ==
    /\ wavOp = "idle" /\ hdrArgs = NoHeaderArgs /\ base64 = <<>>
    /\ header = <<>> /\ bytes = <<>> /\ wavBytes = <<>> /\ audio = "null"
    /\ \E text \in Texts, key \in BOOLEAN :
          tts = [NoTtsCall EXCEPT !.pc = "called", !.text = text, !.apiKey = key]
    /\ employees = SeededEmployees
    /\ simulations = <<>> /\ campaigns = <<>> /\ results = <<>>
    /\ now = 0 /\ res = NoResponse /\ sqlLog = <<>> /\ posted = <<>>
    /\ currentView = "dashboard" /\ emailSim = "null" /\ phoneSim = "null"
    /\ deepfakeAudio = "null" /\ deepfakeSolution = "null"
    /\ loading = FALSE /\ selectedFlags = {} /\ feedback = NoFeedback
    /\ stats = InitialStats /\ reports = <<>>
    /\ tasks = {} /\ analyses = {} /\ submissions = 0 /\ stored = {}
    /\ phoneLog = <<>>

SpecTts == InitTts /\ [][NextTts]_vars

\* The backend from the freshly created and seeded database; no audio call.
InitDb ==
    /\ wavOp = "idle" /\ hdrArgs = NoHeaderArgs /\ base64 = <<>>
    /\ header = <<>> /\ bytes = <<>> /\ wavBytes = <<>> /\ audio = "null"
    /\ tts = NoTtsCall
    /\ employees = SeededEmployees
    /\ simulations = <<>> /\ campaigns = <<>> /\ results = <<>>
    /\ now = 0 /\ res = NoResponse /\ sqlLog = <<>> /\ posted = <<>>
    /\ currentView = "dashboard" /\ emailSim = "null" /\ phoneSim = "null"
    /\ deepfakeAudio = "null" /\ deepfakeSolution = "null"
    /\ loading = FALSE /\ selectedFlags = {} /\ feedback = NoFeedback
    /\ stats = InitialStats /\ reports = <<>>
    /\ tasks = {} /\ analyses = {} /\ submissions = 0 /\ stored = {}
    /\ phoneLog = <<>>

SpecResults == InitDb /\ [][NextResults]_vars

SpecBackend == InitDb /\ [][NextBackend]_vars

\* The backend started on a database file that earlier requests filled.
InitHistory ==
    /\ wavOp = "idle" /\ hdrArgs = NoHeaderArgs /\ base64 = <<>>
    /\ header = <<>> /\ bytes = <<>> /\ wavBytes = <<>> /\ audio = "null"
    /\ tts = NoTtsCall
    /\ \E k \in HistoryLengths :
          /\ employees = HistoryEmployees(k)
          /\ simulations = HistorySimulations(k)
          /\ results = HistoryResults(k)
    /\ campaigns = <<>>
    /\ now = 0 /\ res = NoResponse /\ sqlLog = <<>> /\ posted = <<>>
    /\ currentView = "dashboard" /\ emailSim = "null" /\ phoneSim = "null"
    /\ deepfakeAudio = "null" /\ deepfakeSolution = "null"
    /\ loading = FALSE /\ selectedFlags = {} /\ feedback = NoFeedback
    /\ stats = InitialStats /\ reports = <<>>
    /\ tasks = {} /\ analyses = {} /\ submissions = 0 /\ stored = {}
    /\ phoneLog = <<>>

SpecHistory == InitHistory /\ [][NextHistory]_vars

\* The client mounted on the freshly seeded backend: the mount effect has
\* called fetchStats() and fetchReports().
InitApp ==
    /\ wavOp = "idle" /\ hdrArgs = NoHeaderArgs /\ base64 = <<>>
    /\ header = <<>> /\ bytes = <<>> /\ wavBytes = <<>> /\ audio = "null"
    /\ tts = NoTtsCall
    /\ employees = SeededEmployees
    /\ simulations = <<>> /\ campaigns = <<>> /\ results = <<>>
    /\ now = 0 /\ res = NoResponse /\ sqlLog = <<>> /\ posted = <<>>
    /\ currentView = "dashboard" /\ emailSim = "null" /\ phoneSim = "null"
    /\ deepfakeAudio = "null" /\ deepfakeSolution = "null"
    /\ loading = FALSE /\ selectedFlags = {} /\ feedback = NoFeedback
    /\ stats = InitialStats /\ reports = <<>>
    /\ tasks = {FetchStatsTask, FetchReportsTask} /\ analyses = {} /\ submissions = 0
    /\ stored = {} /\ phoneLog = <<>>

SpecApp == InitApp /\ [][NextApp]_vars

\* The same client with its requests to the backend delivered: a POST or a
\* GET in flight is eventually answered by its handler.  Nothing obliges the
\* user to act, and the AI requests may stay unanswered.
SpecAppDelivered ==
    InitApp /\ [][NextAppDelivered]_vars /\ WF_vars(PostDelivered) /\ WF_vars(FetchDelivered)

====
